---- MODULE Spec2Model ----
(***************************************************************************)
(* WebsiteDeadlinkScraper (website_deadlink_scraper.py): the crawl loop    *)
(* start_scraping, the per-page worker scrape_page with its shared state   *)
(* (visited_urls, deadlinks, current_depth, history_df and the two CSV     *)
(* files), and the pure helpers is_valid_url / check_link / urljoin.       *)
(*                                                                         *)
(* A worker is a thread of the ThreadPoolExecutor.  Every access of a      *)
(* worker to shared state is a step of its own, so the check-then-insert   *)
(* of visited_urls, the read-modify-write of current_depth and the         *)
(* read-concat-store of history_df interleave as the threads can.          *)
(*                                                                         *)
(* Time is counted in whole days and a crawl ends on the day it started.   *)
(* A URL is a record of the components urlparse gives it; a host name is   *)
(* a string whose characters Chars spells out, so that str.endswith is     *)
(* computed on characters.                                                 *)
(***************************************************************************)
EXTENDS Integers, Sequences, FiniteSets, TLC

----------------------------------------------------------------------------
\* Bounds of the model (the program's values are 10000, 20 and 10).

\* largest page ceiling max_pages a crawl is configured with
MaxPagesBound == 3
\* largest depth ceiling max_depth a crawl is configured with
MaxDepthBound == 2
\* threads of the pool and entries of a batch (max_workers, to_visit[:10])
Width == 2

\* timedelta(days=14) of the rescan test
RescanDays == 14
\* day on which the crawl starts
Today == 20

----------------------------------------------------------------------------
\* URLs

\* the characters of the host names that occur
Chars(h) ==
    CASE h = "www.a.b"   -> <<"w","w","w",".","a",".","b">>
      [] h = "s.www.a.b" -> <<"s",".","w","w","w",".","a",".","b">>
      [] h = "xwww.a.b"  -> <<"x","w","w","w",".","a",".","b">>
      [] h = "www.a.b.c" -> <<"w","w","w",".","a",".","b",".","c">>
      [] h = "www.c.d"   -> <<"w","w","w",".","c",".","d">>
      [] h = "a.b"       -> <<"a",".","b">>
      [] h = "www."      -> <<"w","w","w",".">>
      [] h = ""          -> <<>>

\* str.endswith
endswith(s, suffix) ==
    /\ Len(suffix) <= Len(s)
    /\ SubSeq(s, Len(s) - Len(suffix) + 1, Len(s)) = suffix

MkUrl(scheme, netloc, path) == [scheme |-> scheme, netloc |-> netloc, path |-> path]

VARIABLE self_base_url   \* self.base_url, once line 26 has set it

\* the normalized seed
base_url == self_base_url

\* the seed http://www.a.b
SeedHttp == MkUrl("http", "www.a.b", "")

\* a page of the base host
P(path) == MkUrl("http", "www.a.b", path)
\* an href that is a path only
Rel(path) == MkUrl("", "", path)

\* urllib.parse.urljoin(url, href) for an href that is an absolute URL, a
\* //host/path reference or an absolute path
urljoin(url, href) ==
    IF href.scheme # "" /\ href.scheme # url.scheme THEN href
    ELSE IF href.netloc # "" THEN MkUrl(url.scheme, href.netloc, href.path)
    ELSE MkUrl(url.scheme, url.netloc, href.path)

\* a plausible slip: the host is tested with startswith
is_valid_url_prefix(url) ==
    \/ url.netloc = base_url.netloc
    \/ LET s == Chars(url.netloc)
           b == Chars(base_url.netloc)
       IN  Len(b) <= Len(s) /\ SubSeq(s, 1, Len(b)) = b

\* a plausible slip: the filter lets every link pass
is_valid_url_any(url) == TRUE

is_valid_url(url) ==
    \/ url.netloc = base_url.netloc
    \/ endswith(Chars(url.netloc), Chars(base_url.netloc))

----------------------------------------------------------------------------
\* The sites that are crawled: what requests.get and requests.head answer.

Sites == {"A", "B", "C", "D", "E"}

MailTo == MkUrl("mailto", "", "x")

\* soup.find_all('a', href=True) of the page requests.get(url) returns:
\* the href of every anchor, in document order
Anchors(s, url) ==
    CASE s = "A" /\ url = base_url -> <<Rel("/ok"), Rel("/missing")>>
      [] s = "B" /\ url = base_url ->
            <<MkUrl("http", "www.c.d", "/"), MkUrl("http", "www.a.b.c", "/"),
              MkUrl("", "s.www.a.b", "/"), MkUrl("http", "xwww.a.b", "/gone"), MailTo>>
      [] s = "B" /\ url = MkUrl("http", "s.www.a.b", "/") ->
            <<Rel("/in"), MkUrl("http", "www.c.d", "/")>>
      [] s = "C" /\ url = base_url ->
            <<Rel("/p1"), Rel("/p2"), Rel("/p3"), Rel("/p4"), Rel("/p5")>>
      [] s = "D" /\ url = base_url -> <<Rel("/p1"), Rel("/p1"), Rel("/q")>>
      [] s = "D" /\ url = P("/p1") -> <<Rel("/x"), Rel("/p2"), Rel("/y")>>
      [] s = "D" /\ url = P("/p2") -> <<Rel("/p3"), Rel("")>>
      [] s = "D" /\ url = P("/p3") -> <<Rel("/p4")>>
      [] s = "E" /\ url = base_url -> <<Rel("/t"), Rel("/f"), Rel("/g")>>
      [] s = "E" /\ url = P("/g") -> <<Rel("/dead"), Rel("/f"), Rel("/t")>>
      [] OTHER -> <<>>

\* requests.get(url, timeout=10) raises (connection error, timeout)
GetRaises(s, url) ==
    s = "E" /\ url = P("/f")

\* requests.head(url, allow_redirects=True, timeout=5): raises, or answers
\* with a status code
HeadResponse(s, url) ==
    CASE s = "A" /\ url = P("/missing") -> [raises |-> FALSE, status_code |-> 404]
      [] s = "B" /\ url.netloc = "www.c.d" -> [raises |-> FALSE, status_code |-> 404]
      [] s = "B" /\ url.netloc = "xwww.a.b" -> [raises |-> FALSE, status_code |-> 500]
      [] s = "D" /\ url \in {P("/x"), P("/y")} -> [raises |-> FALSE, status_code |-> 404]
      [] s = "E" /\ url = P("/t") -> [raises |-> TRUE, status_code |-> 0]
      [] s = "E" /\ url = P("/dead") -> [raises |-> FALSE, status_code |-> 410]
      [] OTHER -> [raises |-> FALSE, status_code |-> 200]

\* the first in-scope page the seed links to
Child(s) ==
    CASE s = "A" -> P("/ok")
      [] s = "B" -> MkUrl("http", "s.www.a.b", "/")
      [] s = "E" -> P("/g")
      [] OTHER -> P("/p1")

----------------------------------------------------------------------------
\* The stores a crawl starts from: scan_history.csv and deadlinks.csv as
\* an earlier crawl left them.

Row(url, day) == [URL |-> url, LastScanned |-> day]
Dead(source, deadlink) == [source |-> source, deadlink |-> deadlink]

OldDead(s) == <<Dead(SeedHttp, P("/old"))>>

Stores(s) ==
    {[history |-> <<>>, results |-> <<>>]}
    \cup {[history |-> <<Row(Child(s), Today - a)>>, results |-> OldDead(s)] :
            a \in {5, RescanDays, 20}}
    \cup {[history |-> <<Row(SeedHttp, Today - 5), Row(Child(s), Today - 5)>>,
           results |-> <<>>]}

----------------------------------------------------------------------------
VARIABLES
    site,           \* the site that is crawled
    max_pages,      \* self.max_pages
    max_depth,      \* self.max_depth
    now,            \* datetime.now(), in days
    visited_urls,   \* self.visited_urls
    deadlinks,      \* self.deadlinks
    current_depth,  \* self.current_depth
    history_df,     \* self.history_df: rows (URL, LastScanned)
    results_file,   \* deadlinks.csv
    history_file,   \* scan_history.csv
    to_visit,       \* to_visit of start_scraping: tuples (url, depth)
    main_pc,        \* start_scraping: "loop" or "done"
    workers,        \* the threads of the pool running scrape_page
    run,            \* which crawl of the stores this is: 1 or 2
    first_visited,  \* visited_urls at the end of the first crawl
    visit_log,      \* the (url, depth) pairs added to visited_urls
    get_log,        \* the (url, depth) pairs a page GET was issued for
    fetches,        \* url -> number of page GETs issued
    fetch_errors,   \* url -> number of page GETs that raised
    upserts,        \* url -> number of update_history calls
    drop_log,       \* the (url, depth) pairs line 115 returned [] for
    skip_log,       \* the URLs line 124 returned [] for
    loaded,         \* the stores as setup() loaded them
    boot,           \* __init__: where it is, its input and its probes
    batch_no        \* the number of batches taken so far

vars == <<site, max_pages, max_depth, now, visited_urls, deadlinks, current_depth,
          history_df, results_file, history_file, to_visit, main_pc, workers,
          run, first_visited, visit_log, get_log, fetches, fetch_errors, upserts,
          drop_log, skip_log, loaded, self_base_url, boot, batch_no>>

config == <<site, max_pages, max_depth, loaded, self_base_url, boot>>
logs == <<visit_log, get_log, fetches, fetch_errors, upserts, drop_log, skip_log>>

Count(f, u) == IF u \in DOMAIN f THEN f[u] ELSE 0
Inc(f, u) == [x \in DOMAIN f \cup {u} |-> Count(f, x) + (IF x = u THEN 1 ELSE 0)]
NoCounts == [x \in {} |-> 0]

Pool == 1..Width

\* a thread of the pool that runs no scrape_page
Idle ==
    [pc |-> "idle", url |-> SeedHttp, depth |-> 0, force_scan |-> FALSE,
     d |-> 0, anchors |-> <<>>, i |-> 0, internal_links |-> <<>>, df |-> <<>>,
     checked |-> <<>>, found |-> <<>>, batch |-> 0]

\* a plausible slip: the loop goes on once the first future is done
AllIdle_first == workers[1].pc = "idle"

AllIdle == \A w \in Pool : workers[w].pc = "idle"

\* __init__ has returned
Booted ==
    [pc |-> "done", raw |-> MkUrl("", "", ""), url |-> MkUrl("", "", ""),
     reachable |-> {}, probes |-> <<>>]

\* __init__, setup (load_history, load_existing_results) and line 151
Init ==
    /\ self_base_url = SeedHttp
    /\ boot = Booted
    /\ site \in Sites
    /\ max_pages \in 1..MaxPagesBound
    /\ max_depth \in 1..MaxDepthBound
    /\ now = Today
    /\ visited_urls = {}
    /\ current_depth = 0
    /\ \E st \in Stores(site) :
         /\ history_file = st.history
         /\ history_df = st.history
         /\ results_file = st.results
         /\ deadlinks = st.results
         /\ loaded = st
    /\ to_visit = <<<<base_url, 0>>>>
    /\ main_pc = "loop"
    /\ workers = [w \in Pool |-> Idle]
    /\ run = 1
    /\ first_visited = {}
    /\ visit_log = {}
    /\ get_log = {}
    /\ fetches = NoCounts
    /\ fetch_errors = NoCounts
    /\ upserts = NoCounts
    /\ drop_log = {}
    /\ skip_log = {}
    /\ batch_no = 0

----------------------------------------------------------------------------
\* The pure parts of scrape_page and start_scraping.

\* a plausible slip: any answer counts as alive, only an exception as dead
check_link_any_answer(url) ==
    HeadResponse(site, url).raises

\* a plausible slip: an exception is swallowed as "not dead"
check_link_fail_open(url) ==
    LET response == HeadResponse(site, url)
    IN  IF response.raises THEN FALSE ELSE response.status_code # 200

\* check_link: TRUE when the link is dead
check_link(url) ==
    LET response == HeadResponse(site, url)
    IN  IF response.raises THEN TRUE ELSE response.status_code # 200

\* a plausible slip: the depth ceiling is not tested
AlreadySeen_no_depth(url, depth) ==
    url \in visited_urls

\* a plausible slip: the depth ceiling is one too high
AlreadySeen_off_by_one(url, depth) ==
    url \in visited_urls \/ depth > max_depth + 1

\* line 114: the entry is dropped
AlreadySeen(url, depth) ==
    url \in visited_urls \/ depth > max_depth

\* a plausible slip: <= for <
RecentlyScanned_le(url, force_scan) ==
    /\ ~force_scan
    /\ \E k \in 1..Len(history_df) : history_df[k].URL = url
    /\ LET k == CHOOSE j \in 1..Len(history_df) :
                  /\ history_df[j].URL = url
                  /\ \A l \in 1..(j - 1) : history_df[l].URL # url
       IN  now - history_df[k].LastScanned <= RescanDays

\* lines 121-124: the page was scanned in the last 14 days (.iloc[0] is the
\* first row of the URL)
RecentlyScanned(url, force_scan) ==
    /\ ~force_scan
    /\ \E k \in 1..Len(history_df) : history_df[k].URL = url
    /\ LET k == CHOOSE j \in 1..Len(history_df) :
                  /\ history_df[j].URL = url
                  /\ \A l \in 1..(j - 1) : history_df[l].URL # url
       IN  now - history_df[k].LastScanned < RescanDays

\* a plausible slip: the seed is not forced
ForceScan_never(url) ==
    FALSE

\* line 159
ForceScan(url) ==
    url = base_url

\* a plausible slip: the batch is not taken off the queue
Remaining_all(q) ==
    q

\* line 155: to_visit[:10]
Batch(q) ==
    SubSeq(q, 1, IF Len(q) < Width THEN Len(q) ELSE Width)

\* line 156: to_visit[10:]
Remaining(q) ==
    SubSeq(q, (IF Len(q) < Width THEN Len(q) ELSE Width) + 1, Len(q))

\* line 153
Continue ==
    to_visit # <<>> /\ Cardinality(visited_urls) < max_pages

\* a plausible slip: a dead URL is recorded once, for its first source
RecordDead_once(list, record) ==
    IF \E k \in 1..Len(list) : list[k].deadlink = record.deadlink
    THEN list
    ELSE Append(list, record)

\* line 137: self.deadlinks.append
RecordDead(list, record) ==
    Append(list, record)

\* a plausible slip: the URL is not marked visited
AfterCheck_no_add == "rd_depth"

\* line 117 follows when line 114 lets the entry pass
AfterCheck == "add"

\* max(a, b)
max(a, b) == IF a >= b THEN a ELSE b

----------------------------------------------------------------------------
\* start_scraping

\* lines 153-160: the next batch is taken and submitted
NextBatch ==
    /\ main_pc = "loop"
    /\ AllIdle
    /\ Continue
    /\ LET batch == Batch(to_visit)
       IN  workers' = [w \in Pool |->
                IF w <= Len(batch)
                THEN [Idle EXCEPT !.pc = "check", !.url = batch[w][1],
                                  !.depth = batch[w][2],
                                  !.force_scan = ForceScan(batch[w][1]),
                                  !.batch = batch_no + 1]
                ELSE Idle]
    /\ to_visit' = Remaining(to_visit)
    /\ batch_no' = batch_no + 1
    /\ UNCHANGED <<config, now, visited_urls, deadlinks, current_depth, history_df,
                   results_file, history_file, main_pc, run, first_visited, logs>>

\* lines 153, 168-169: the loop ends
Finish ==
    /\ main_pc = "loop"
    /\ AllIdle
    /\ ~Continue
    /\ main_pc' = "done"
    /\ UNCHANGED <<batch_no, config, now, visited_urls, deadlinks, current_depth, history_df,
                   results_file, history_file, to_visit, workers, run,
                   first_visited, logs>>

----------------------------------------------------------------------------
\* scrape_page, one thread w of the pool

At(w, pc) == workers[w].pc = pc

\* the thread returns new_links; lines 162-164 extend to_visit with them.
\* Only the main thread touches to_visit, so the return and the extend are
\* one step; the order of the returns is the order as_completed yields.
Return(w, new_links) ==
    /\ workers' = [workers EXCEPT ![w] = Idle]
    /\ to_visit' = to_visit \o new_links

Goto(w, pc) ==
    workers' = [workers EXCEPT ![w].pc = pc]

\* lines 114-115
Check(w) ==
    /\ At(w, "check")
    /\ IF AlreadySeen(workers[w].url, workers[w].depth)
       THEN /\ Return(w, <<>>)
            /\ drop_log' = drop_log \cup {<<workers[w].url, workers[w].depth>>}
       ELSE Goto(w, AfterCheck) /\ UNCHANGED <<to_visit, drop_log>>
    /\ UNCHANGED <<batch_no, config, now, visited_urls, deadlinks, current_depth, history_df,
                   results_file, history_file, main_pc, run, first_visited,
                   visit_log, get_log, fetches, fetch_errors, upserts, skip_log>>

\* line 117
Add(w) ==
    /\ At(w, "add")
    /\ visited_urls' = visited_urls \cup {workers[w].url}
    /\ visit_log' = visit_log \cup {<<workers[w].url, workers[w].depth>>}
    /\ Goto(w, "rd_depth")
    /\ UNCHANGED <<batch_no, config, now, deadlinks, current_depth, history_df, results_file,
                   history_file, to_visit, main_pc, run, first_visited,
                   get_log, fetches, fetch_errors, upserts, drop_log, skip_log>>

\* line 118, the right-hand side
ReadDepth(w) ==
    /\ At(w, "rd_depth")
    /\ workers' = [workers EXCEPT ![w].pc = "wr_depth",
                                  ![w].d = max(current_depth, workers[w].depth)]
    /\ UNCHANGED <<batch_no, config, now, visited_urls, deadlinks, current_depth, history_df,
                   results_file, history_file, to_visit, main_pc, run,
                   first_visited, logs>>

\* line 118, the store
WriteDepth(w) ==
    /\ At(w, "wr_depth")
    /\ current_depth' = workers[w].d
    /\ Goto(w, "gate")
    /\ UNCHANGED <<batch_no, config, now, visited_urls, deadlinks, history_df, results_file,
                   history_file, to_visit, main_pc, run, first_visited, logs>>

\* lines 120-124
Gate(w) ==
    /\ At(w, "gate")
    /\ IF RecentlyScanned(workers[w].url, workers[w].force_scan)
       THEN /\ Return(w, <<>>)
            /\ skip_log' = skip_log \cup {workers[w].url}
       ELSE Goto(w, "get") /\ UNCHANGED <<to_visit, skip_log>>
    /\ UNCHANGED <<batch_no, config, now, visited_urls, deadlinks, current_depth, history_df,
                   results_file, history_file, main_pc, run, first_visited,
                   visit_log, get_log, fetches, fetch_errors, upserts, drop_log>>

\* a plausible slip: the history is saved but the URL is not entered
AfterLinks_no_update == "uh_save"

\* lines 142-143: after the last anchor update_history is called
AfterLinks == "uh_test"

\* where the thread goes on after the anchor at index i
AfterAnchor(w, i) ==
    IF i >= Len(workers[w].anchors) THEN AfterLinks ELSE "link"

\* lines 128-132, and 146-148 when the GET raises
Get(w) ==
    /\ At(w, "get")
    /\ fetches' = Inc(fetches, workers[w].url)
    /\ get_log' = get_log \cup {<<workers[w].url, workers[w].depth>>}
    /\ IF GetRaises(site, workers[w].url)
       THEN /\ Return(w, <<>>)
            /\ fetch_errors' = Inc(fetch_errors, workers[w].url)
       ELSE /\ LET anchors == Anchors(site, workers[w].url)
               IN  workers' = [workers EXCEPT
                       ![w].anchors = anchors,
                       ![w].i = 1,
                       ![w].pc = IF anchors = <<>> THEN AfterLinks ELSE "link"]
            /\ UNCHANGED <<to_visit, fetch_errors>>
    /\ UNCHANGED <<batch_no, config, now, visited_urls, deadlinks, current_depth, history_df,
                   results_file, history_file, main_pc, run, first_visited,
                   visit_log, upserts, drop_log, skip_log>>

\* lines 133-137 and 139-140: one anchor of the page.  The HEAD request
\* reads no shared state, so it is one step with the access that follows it:
\* deadlinks.append, or the test against visited_urls.
Link(w) ==
    /\ At(w, "link")
    /\ LET me == workers[w]
           full_url == urljoin(me.url, me.anchors[me.i])
       IN  IF is_valid_url(full_url)
           THEN IF check_link(full_url)
                THEN /\ deadlinks' = RecordDead(deadlinks, Dead(me.url, full_url))
                     /\ workers' = [workers EXCEPT
                            ![w].pc = "save",
                            ![w].checked = Append(me.checked, me.i),
                            ![w].found = Append(me.found, me.i)]
                ELSE /\ workers' = [workers EXCEPT
                            ![w].pc = AfterAnchor(w, me.i),
                            ![w].i = me.i + 1,
                            ![w].checked = Append(me.checked, me.i),
                            ![w].internal_links =
                                IF full_url \notin visited_urls
                                THEN Append(me.internal_links, <<full_url, me.depth + 1>>)
                                ELSE me.internal_links]
                     /\ UNCHANGED deadlinks
           ELSE /\ workers' = [workers EXCEPT ![w].pc = AfterAnchor(w, me.i),
                                              ![w].i = me.i + 1]
                /\ UNCHANGED deadlinks
    /\ UNCHANGED <<batch_no, config, now, visited_urls, current_depth, history_df, results_file,
                   history_file, to_visit, main_pc, run, first_visited, logs>>

\* line 138, save_result (171-174)
Save(w) ==
    /\ At(w, "save")
    /\ LET me == workers[w]
       IN  /\ results_file' = Append(results_file,
                                  Dead(me.url, urljoin(me.url, me.anchors[me.i])))
           /\ workers' = [workers EXCEPT ![w].pc = AfterAnchor(w, me.i),
                                         ![w].i = me.i + 1]
    /\ UNCHANGED <<batch_no, config, now, visited_urls, deadlinks, current_depth, history_df,
                   history_file, to_visit, main_pc, run, first_visited, logs>>

\* lines 143 and 177: update_history tests whether the URL has a row
HistoryTest(w) ==
    /\ At(w, "uh_test")
    /\ upserts' = Inc(upserts, workers[w].url)
    /\ IF \E k \in 1..Len(history_df) : history_df[k].URL = workers[w].url
       THEN Goto(w, "uh_set")
       ELSE Goto(w, "uh_read")
    /\ UNCHANGED <<batch_no, config, now, visited_urls, deadlinks, current_depth, history_df,
                   results_file, history_file, to_visit, main_pc, run,
                   first_visited, visit_log, get_log, fetches, fetch_errors,
                   drop_log, skip_log>>

\* line 178: the rows of the URL are set in place, in the frame that
\* self.history_df holds at that moment
HistorySet(w) ==
    /\ At(w, "uh_set")
    /\ history_df' = [k \in 1..Len(history_df) |->
                        IF history_df[k].URL = workers[w].url
                        THEN Row(workers[w].url, now)
                        ELSE history_df[k]]
    /\ Goto(w, "uh_save")
    /\ UNCHANGED <<batch_no, config, now, visited_urls, deadlinks, current_depth, results_file,
                   history_file, to_visit, main_pc, run, first_visited, logs>>

\* lines 180-181, the right-hand side: pd.concat of the frame read now
HistoryConcat(w) ==
    /\ At(w, "uh_read")
    /\ workers' = [workers EXCEPT
            ![w].pc = "uh_write",
            ![w].df = Append(history_df, Row(workers[w].url, now))]
    /\ UNCHANGED <<batch_no, config, now, visited_urls, deadlinks, current_depth, history_df,
                   results_file, history_file, to_visit, main_pc, run,
                   first_visited, logs>>

\* line 181, the store
HistoryStore(w) ==
    /\ At(w, "uh_write")
    /\ history_df' = workers[w].df
    /\ Goto(w, "uh_save")
    /\ UNCHANGED <<batch_no, config, now, visited_urls, deadlinks, current_depth, results_file,
                   history_file, to_visit, main_pc, run, first_visited, logs>>

\* lines 183 and 185-186 (save_history), then line 144
HistorySave(w) ==
    /\ At(w, "uh_save")
    /\ history_file' = history_df
    /\ Return(w, workers[w].internal_links)
    /\ UNCHANGED <<batch_no, config, now, visited_urls, deadlinks, current_depth, history_df,
                   results_file, main_pc, run, first_visited, logs>>

Worker(w) ==
    \/ Check(w) \/ Add(w) \/ ReadDepth(w) \/ WriteDepth(w) \/ Gate(w) \/ Get(w)
    \/ Link(w) \/ Save(w) \/ HistoryTest(w) \/ HistorySet(w) \/ HistoryConcat(w)
    \/ HistoryStore(w) \/ HistorySave(w)

Next ==
    \/ NextBatch
    \/ Finish
    \/ \E w \in Pool : Worker(w)

Spec == Init /\ [][Next]_vars

\* the threads of the pool and the main thread are scheduled, and every
\* request ends (timeout=10, timeout=5)
FairSpec == Spec /\ WF_vars(Next)

----------------------------------------------------------------------------
\* The same crawl is run a second time: main() is started again on the
\* stores the first crawl left, at once or a rescan window later.

Restart ==
    /\ main_pc = "done"
    /\ run = 1
    /\ run' = 2
    /\ first_visited' = visited_urls
    /\ \E elapsed \in {0, RescanDays} : now' = now + elapsed
    /\ loaded' = [history |-> history_file, results |-> results_file]
    /\ visited_urls' = {}
    /\ current_depth' = 0
    /\ history_df' = history_file
    /\ deadlinks' = results_file
    /\ to_visit' = <<<<base_url, 0>>>>
    /\ main_pc' = "loop"
    /\ workers' = [w \in Pool |-> Idle]
    /\ visit_log' = {}
    /\ get_log' = {}
    /\ fetches' = NoCounts
    /\ fetch_errors' = NoCounts
    /\ upserts' = NoCounts
    /\ drop_log' = {}
    /\ skip_log' = {}
    /\ batch_no' = 0
    /\ UNCHANGED <<site, max_pages, max_depth, results_file, history_file,
                   self_base_url, boot>>

----------------------------------------------------------------------------
\* __init__ from its first line: format_and_verify_url, then setup

\* the seed strings that are typed in; no scheme is scheme ""
RawSeeds ==
    {MkUrl("", "a.b", ""), MkUrl("", "www.a.b", ""), MkUrl("http", "a.b", ""),
     MkUrl("https", "a.b", ""), MkUrl("https", "www.a.b", "")}

\* self.base_url before line 26
NotSet == MkUrl("", "", "")

\* str.startswith
startswith(s, prefix) ==
    /\ Len(prefix) <= Len(s)
    /\ SubSeq(s, 1, Len(prefix)) = prefix

\* a plausible slip: any outcome of the probe counts as reachable
check_url_accessibility_any(url) ==
    TRUE

\* lines 56-61: the GET answers 200; boot.reachable holds the schemes
\* under which the site does
check_url_accessibility(url) ==
    url.scheme \in boot.reachable

InitStartup ==
    /\ self_base_url = NotSet
    /\ \E raw \in RawSeeds : \E reachable \in SUBSET {"http", "https"} :
         boot = [pc |-> "normalize", raw |-> raw, url |-> raw,
                 reachable |-> reachable, probes |-> <<>>]
    /\ site \in Sites
    /\ max_pages \in 1..MaxPagesBound
    /\ max_depth \in 1..MaxDepthBound
    /\ now = Today
    /\ visited_urls = {}
    /\ current_depth = 0
    /\ deadlinks = <<>>
    /\ history_df = <<>>
    /\ \E st \in Stores(site) :
         /\ history_file = st.history
         /\ results_file = st.results
         /\ loaded = st
    /\ to_visit = <<>>
    /\ main_pc = "init"
    /\ workers = [w \in Pool |-> Idle]
    /\ run = 1
    /\ first_visited = {}
    /\ visit_log = {}
    /\ get_log = {}
    /\ fetches = NoCounts
    /\ fetch_errors = NoCounts
    /\ upserts = NoCounts
    /\ drop_log = {}
    /\ skip_log = {}
    /\ batch_no = 0

crawl == <<visited_urls, deadlinks, current_depth, history_df, results_file,
           history_file, to_visit, main_pc, workers, run, first_visited>>

\* lines 35-40: the scheme and the www. prefix
Normalize ==
    /\ boot.pc = "normalize"
    /\ LET raw == boot.raw
           scheme == IF raw.scheme \in {"http", "https"} THEN raw.scheme ELSE "http"
           netloc == IF startswith(Chars(raw.netloc), Chars("www."))
                     THEN raw.netloc
                     ELSE "www." \o raw.netloc
       IN  boot' = [boot EXCEPT !.pc = "probe",
                                !.url = MkUrl(scheme, netloc, raw.path)]
    /\ UNCHANGED <<batch_no, site, max_pages, max_depth, now, loaded, self_base_url, crawl, logs>>

\* lines 42-44, and 53-54 when the probe fails and the scheme is not http
Probe ==
    /\ boot.pc = "probe"
    /\ LET ok == check_url_accessibility(boot.url)
       IN  /\ boot' = [boot EXCEPT
                  !.probes = Append(boot.probes, [url |-> boot.url, ok |-> ok]),
                  !.pc = IF ok THEN "setup"
                         ELSE IF boot.url.scheme = "http" THEN "probe_https"
                         ELSE "exit"]
           /\ self_base_url' = IF ok THEN boot.url ELSE self_base_url
    /\ UNCHANGED <<batch_no, site, max_pages, max_depth, now, loaded, crawl, logs>>

\* lines 47-51, and 53-54 when this probe fails too
ProbeHttps ==
    /\ boot.pc = "probe_https"
    /\ LET https_url == [boot.url EXCEPT !.scheme = "https"]
           ok == check_url_accessibility(https_url)
       IN  /\ boot' = [boot EXCEPT
                  !.probes = Append(boot.probes, [url |-> https_url, ok |-> ok]),
                  !.pc = IF ok THEN "setup" ELSE "exit"]
           /\ self_base_url' = IF ok THEN https_url ELSE self_base_url
    /\ UNCHANGED <<batch_no, site, max_pages, max_depth, now, loaded, crawl, logs>>

\* lines 63-67 (load_history, load_existing_results), then line 151
Setup ==
    /\ boot.pc = "setup"
    /\ boot' = Booted
    /\ history_df' = history_file
    /\ deadlinks' = results_file
    /\ to_visit' = <<<<base_url, 0>>>>
    /\ main_pc' = "loop"
    /\ UNCHANGED <<batch_no, site, max_pages, max_depth, now, loaded, self_base_url,
                   visited_urls, current_depth, results_file, history_file,
                   workers, run, first_visited, logs>>

NextStartup ==
    \/ Normalize
    \/ Probe
    \/ ProbeHttps
    \/ Setup
    \/ Next

SpecStartup == InitStartup /\ [][NextStartup]_vars

NextTwoRuns ==
    \/ Next
    \/ Restart

\* the first crawl starts from stores without dead-link records; the two
\* crawls are run on the sites without a page that is linked twice
InitTwoRuns == Init /\ loaded.results = <<>> /\ site # "D"

SpecTwoRuns == InitTwoRuns /\ [][NextTwoRuns]_vars

----------------------------------------------------------------------------
\* Properties

Done == main_pc = "done"

\* the URLs held in the frontier, queued or collected by a thread
FrontierUrls ==
    {to_visit[k][1] : k \in 1..Len(to_visit)}
    \cup UNION {{workers[w].internal_links[k][1] :
                    k \in 1..Len(workers[w].internal_links)} : w \in Pool}

\* the URLs the threads of the running batch were submitted with
BatchUrls == {workers[w].url : w \in {v \in Pool : workers[v].pc # "idle"}}

\* C1: during one crawl no URL is fetched (page GET) more than once, under
\* every interleaving of the threads of a batch.
NoUrlFetchedTwice ==
    \A u \in DOMAIN fetches : fetches[u] <= 1

\* C2: the number of URLs in visited_urls never exceeds max_pages.
VisitedWithinMaxPages ==
    Cardinality(visited_urls) <= max_pages

\* C3: every URL added to visited_urls or fetched was submitted with a depth
\* of at most max_depth; an entry of depth max_depth + 1 is neither fetched
\* nor marked visited.
DepthBound ==
    /\ \A e \in visit_log \cup get_log : e[2] <= max_depth
    /\ \A e \in drop_log :
         e[2] > max_depth => e \notin visit_log /\ e \notin get_log

\* an entry of depth max_depth + 1 was submitted and dropped, and its URL
\* stays unvisited
DepthBoundWitness ==
    \E e \in drop_log : e[2] = max_depth + 1 /\ e[1] \notin visited_urls

\* the Domain Scope Filter as the specification words it: the host is the
\* base host, or some tail of it is
HostInScope(url) ==
    LET h == Chars(url.netloc)
        b == Chars(base_url.netloc)
    IN  h = b \/ \E k \in 1..Len(h) : SubSeq(h, k, Len(h)) = b

\* the hosts of other domains the sites link to
ExternalHosts == {"www.c.d", "www.a.b.c", ""}

\* C4: every frontier entry and every URL of visited_urls is in scope of the
\* base URL; a URL of another domain is never queued, submitted or visited.
ScopeContainment ==
    \A u \in FrontierUrls \cup BatchUrls \cup visited_urls :
        HostInScope(u) /\ u.netloc \notin ExternalHosts

\* the seed page of site B, which links to two other domains (one alive, one
\* dead) and to a subdomain, was crawled to the end
ScopeContainmentWitness ==
    /\ Done
    /\ site = "B"
    /\ Count(fetches, base_url) >= 1
    /\ MkUrl("http", "s.www.a.b", "/") \in visited_urls
    /\ HeadResponse(site, MkUrl("http", "www.a.b.c", "/")).status_code = 200

\* the history holds a record of the URL that is less than 14 days old
FreshRecord(url) ==
    \E k \in 1..Len(history_df) :
        history_df[k].URL = url /\ now - history_df[k].LastScanned < 14

\* thread w, which passed line 114, takes the step that decides on the skip
Decides(w) == workers[w].pc = "gate" /\ workers'[w].pc # "gate"

\* C5: a submitted URL is skipped (no page GET, no children) if and only if
\* it is not the seed and the history holds a record of it that is less than
\* 14 days old; otherwise the thread goes on to fetch it.
RescanGate ==
    [][\A w \in Pool : Decides(w) =>
          IF workers[w].url # base_url /\ FreshRecord(workers[w].url)
          THEN /\ workers'[w].pc = "idle"
               /\ to_visit' = to_visit
               /\ fetches' = fetches
          ELSE /\ workers'[w].pc = "get"
               /\ workers'[w].url = workers[w].url]_vars

\* with records of the seed and of a child that are 5 days old, the child
\* was skipped and the seed was fetched all the same
RescanGateWitness ==
    /\ Done
    /\ \E k \in 1..Len(loaded.history) :
          /\ loaded.history[k].URL = base_url
          /\ Today - loaded.history[k].LastScanned = 5
    /\ Child(site) \in skip_log
    /\ Child(site) \notin DOMAIN fetches
    /\ Count(fetches, base_url) = 1

\* the anchors of its page thread w has dealt with
Handled(w) ==
    {j \in 1..Len(workers[w].anchors) :
        j < workers[w].i \/ (j = workers[w].i /\ workers[w].pc = "save")}

Occurrences(seq, x) == Cardinality({k \in 1..Len(seq) : seq[k] = x})

\* C6: an in-scope link of a fetched page is reported dead if and only if
\* its HEAD check answers with a status other than 200 or raises; it is then
\* recorded with its source page, and it is checked once, not again.
FailClosedValidation ==
    \A w \in Pool : \A j \in Handled(w) :
        LET full_url == urljoin(workers[w].url, workers[w].anchors[j])
            response == HeadResponse(site, full_url)
        IN  IF HostInScope(full_url)
            THEN /\ Occurrences(workers[w].checked, j) = 1
                 /\ Occurrences(workers[w].found, j) <= 1
                 /\ Occurrences(workers[w].found, j) = 1
                      <=> (response.raises \/ response.status_code # 200)
                 /\ Occurrences(workers[w].found, j) = 1
                      => \E k \in 1..Len(deadlinks) :
                            deadlinks[k] = Dead(workers[w].url, full_url)
            ELSE /\ Occurrences(workers[w].checked, j) = 0
                 /\ Occurrences(workers[w].found, j) = 0

\* on site E the check of /t timed out: the link is recorded as dead with
\* the seed as its source, and the thread went on to the next anchor
FailClosedValidationWitness ==
    /\ site = "E"
    /\ HeadResponse(site, P("/t")).raises
    /\ \E w \in Pool :
          /\ workers[w].url = base_url
          /\ workers[w].i > 1
          /\ workers[w].found = <<1>>
    /\ \E k \in 1..Len(deadlinks) : deadlinks[k] = Dead(base_url, P("/t"))

\* C7: run twice on a static site, the crawl ends with the same
\* visited_urls: the second crawl, started from the history the first one
\* recorded, visits what the first one visited.
SecondRunSameVisited ==
    (run = 2 /\ Done) => visited_urls = first_visited

\* no page but the seed page carries a link
OnlySeedHasLinks ==
    \A u \in first_visited \cup visited_urls :
        u # base_url => Anchors(site, u) = <<>>

\* C7, amended: the two crawls end with the same visited_urls when every
\* page other than the seed is a leaf.
SecondRunSameVisitedOnLeaves ==
    (run = 2 /\ Done /\ OnlySeedHasLinks) => visited_urls = first_visited

\* the second crawl of site C ended; it skipped a page the first one fetched
SecondRunWitness ==
    /\ run = 2
    /\ Done
    /\ site = "C"
    /\ OnlySeedHasLinks
    /\ Cardinality(visited_urls) >= 2
    /\ skip_log # {}

\* C8: every attempted page fetch is followed by exactly one update_history
\* of its URL, whether the fetch succeeds or raises.
UpsertPerFetch ==
    AllIdle => \A u \in DOMAIN fetches : Count(upserts, u) = fetches[u]

\* C8, amended: every page fetch that succeeds is followed by exactly one
\* update_history of its URL, and a fetch that raises by none.
UpsertPerSuccessfulFetch ==
    /\ AllIdle =>
         \A u \in DOMAIN fetches \cup DOMAIN upserts :
            Count(upserts, u) = Count(fetches, u) - Count(fetch_errors, u)
    /\ \A u \in DOMAIN upserts : upserts[u] <= Count(fetches, u)

\* on site E the batch with /f and /g is over: the GET of /f raised and /f
\* was not entered, the seed and /g were entered once each
UpsertWitness ==
    /\ AllIdle
    /\ site = "E"
    /\ Count(fetch_errors, P("/f")) = 1
    /\ Count(upserts, P("/f")) = 0
    /\ Count(upserts, base_url) = 1
    /\ Count(upserts, P("/g")) = 1

\* C9: the loop ends, and when it has ended the frontier is empty or
\* visited_urls holds max_pages URLs or more; with max_pages = 1 and a seed
\* that links to 5 in-scope pages, 1 URL is visited and the rest abandoned.
Terminates ==
    /\ <>Done
    /\ [](Done => (to_visit = <<>> \/ Cardinality(visited_urls) >= max_pages))
    /\ [](Done /\ site = "C" /\ max_pages = 1 =>
             Cardinality(visited_urls) = 1 /\ Len(to_visit) = 5)

\* the crawl of site C with max_pages = 1 ended with the 5 pages queued
TerminatesWitness ==
    /\ Done
    /\ site = "C"
    /\ max_pages = 1
    /\ visited_urls = {base_url}
    /\ Len(to_visit) = 5

\* the crawl of site A that started from empty stores has ended
ScenarioADone ==
    /\ Done
    /\ run = 1
    /\ site = "A"
    /\ loaded = [history |-> <<>>, results |-> <<>>]

\* C10: scenario A ends with the one record (seed, /missing) and with
\* visited_urls = {seed, /ok, /missing} or {seed}.
ScenarioA ==
    ScenarioADone =>
        /\ deadlinks = <<Dead(base_url, P("/missing"))>>
        /\ visited_urls \in {{base_url, P("/ok"), P("/missing")}, {base_url}}

\* C10, amended: scenario A ends with the one record (seed, /missing) and
\* with visited_urls = {seed, /ok}; with max_pages = 1 the crawl stops after
\* the seed and visited_urls = {seed}.
ScenarioALivePagesVisited ==
    ScenarioADone =>
        /\ deadlinks = <<Dead(base_url, P("/missing"))>>
        /\ results_file = deadlinks
        /\ visited_urls = IF max_pages = 1 THEN {base_url} ELSE {base_url, P("/ok")}

\* scenario A ended under a ceiling of more than one page
ScenarioAWitness ==
    /\ ScenarioADone
    /\ max_pages > 1
    /\ P("/ok") \in visited_urls
    /\ Len(deadlinks) = 1

\* the seed as the claim normalizes it: http unless https was typed
TypedScheme == IF boot.raw.scheme = "https" THEN "https" ELSE "http"

\* neither the probe of the normalized seed nor, for an http seed, the
\* https probe answers 200
SeedUnreachable ==
    /\ boot.pc # "done"
    /\ TypedScheme \notin boot.reachable
    /\ TypedScheme = "http" => "https" \notin boot.reachable

\* C11: when the probe of the normalized seed fails and, for an http seed,
\* the https probe fails too, the crawl aborts before any crawling: nothing
\* is submitted, visited_urls stays empty, no dead-link or history record is
\* written; the https probe is issued only after the http probe failed.
UnreachableSeedAborts ==
    /\ SeedUnreachable =>
         /\ boot.pc \in {"normalize", "probe", "probe_https", "exit"}
         /\ main_pc = "init"
         /\ visited_urls = {}
         /\ to_visit = <<>>
         /\ AllIdle
         /\ fetches = NoCounts
         /\ deadlinks = <<>>
         /\ results_file = loaded.results
         /\ history_file = loaded.history
    /\ \A k \in 1..Len(boot.probes) :
         (boot.probes[k].url.scheme = "https" /\ TypedScheme = "http") =>
            /\ k = 2
            /\ boot.probes[1].url.scheme = "http"
            /\ ~boot.probes[1].ok

\* an http seed was probed under http and then under https, both failed,
\* and __init__ has exited
UnreachableSeedWitness ==
    /\ boot.pc = "exit"
    /\ Len(boot.probes) = 2
    /\ boot.raw = MkUrl("", "a.b", "")
    /\ boot.probes[2].url = MkUrl("https", "www.a.b", "")
    /\ SeedUnreachable

\* the page fetches of url that got a response
Fetched(url) == Count(fetches, url) - Count(fetch_errors, url)

\* the anchors of the page of url that resolve to full_url
AnchorsTo(url, full_url) ==
    {j \in 1..Len(Anchors(site, url)) :
        urljoin(url, Anchors(site, url)[j]) = full_url}

\* full_url is in scope and its HEAD check does not answer 200
IsDead(full_url) ==
    /\ is_valid_url(full_url)
    /\ LET response == HeadResponse(site, full_url)
       IN  response.raises \/ response.status_code # 200

\* C12: the dead-link list only grows by appends: a step leaves the records
\* it holds in place and adds at most one at the end; and every occurrence
\* of a dead link on a fetched page adds its own record, so that the same
\* dead URL met on two fetched pages is recorded once for each.
DeadlinksAppendOnly ==
    /\ [][\/ deadlinks' = deadlinks
          \/ /\ Len(deadlinks') = Len(deadlinks) + 1
             /\ SubSeq(deadlinks', 1, Len(deadlinks)) = deadlinks]_vars
    /\ [](AllIdle =>
            \A u \in visited_urls :
                \A j \in 1..Len(Anchors(site, u)) :
                    LET full_url == urljoin(u, Anchors(site, u)[j])
                    IN  IsDead(full_url) =>
                          Occurrences(deadlinks, Dead(u, full_url))
                            = Occurrences(loaded.results, Dead(u, full_url))
                              + Fetched(u) * Cardinality(AnchorsTo(u, full_url)))

\* site E was crawled to the end: /t is recorded dead once with the seed
\* page as its source and once with /g
DeadlinksAppendOnlyWitness ==
    /\ Done
    /\ site = "E"
    /\ loaded.results = <<>>
    /\ Fetched(base_url) = 1
    /\ Fetched(P("/g")) = 1
    /\ Occurrences(deadlinks, Dead(base_url, P("/t"))) = 1
    /\ Occurrences(deadlinks, Dead(P("/g"), P("/t"))) = 1

\* the entries held in the frontier, queued or collected by a thread
FrontierEntries ==
    {to_visit[k] : k \in 1..Len(to_visit)}
    \cup UNION {{workers[w].internal_links[k] :
                    k \in 1..Len(workers[w].internal_links)} : w \in Pool}

\* C13: an entry that would exceed the maximum depth is dropped rather than
\* enqueued: every frontier entry has a depth of at most max_depth.
FrontierWithinMaxDepth ==
    \A e \in FrontierEntries : e[2] <= max_depth

\* C13, amended: a frontier entry has a depth of at most max_depth + 1: the
\* links of a page of depth max_depth are enqueued, and an entry over the
\* maximum depth is dropped when it is submitted, before it is marked
\* visited or fetched.
FrontierWithinMaxDepthPlusOne ==
    /\ \A e \in FrontierEntries : e[2] <= max_depth + 1
    /\ \A w \in Pool :
          workers[w].depth > max_depth => workers[w].pc \in {"idle", "check"}
    /\ \A e \in visit_log \cup get_log : e[2] <= max_depth

\* the frontier holds an entry of depth max_depth + 1, and such an entry was
\* dropped on submission before
FrontierOverDepthWitness ==
    /\ \E k \in 1..Len(to_visit) : to_visit[k][2] = max_depth + 1
    /\ \E e \in drop_log : e[2] = max_depth + 1

\* thread w takes the step in which the gate skips its entry or its page
\* GET fails
SkipsOrFails(w) ==
    /\ workers[w].pc \in {"gate", "get"}
    /\ \/ skip_log' # skip_log
       \/ fetch_errors' # fetch_errors
    /\ workers'[w] # workers[w]

\* C14: a submitted entry that the gate skips or whose page GET fails is in
\* visited_urls all the same and contributes no children: the thread ends
\* with no links, the queue and the other threads are left as they are, and
\* the crawl goes on.
SkippedOrFailedStillVisited ==
    /\ [](\A u \in skip_log \cup DOMAIN fetch_errors : u \in visited_urls)
    /\ [][\A w \in Pool : SkipsOrFails(w) =>
            /\ workers[w].url \in visited_urls'
            /\ workers'[w] = Idle
            /\ to_visit' = to_visit
            /\ \A v \in Pool \ {w} : workers'[v] = workers[v]
            /\ main_pc' = main_pc
            /\ main_pc' # "done"]_vars

\* on site E the page GET of /f failed: /f is in visited_urls, and the crawl
\* went on to fetch /g and to its end
SkippedOrFailedWitness ==
    /\ Done
    /\ site = "E"
    /\ Count(fetch_errors, P("/f")) >= 1
    /\ P("/f") \in visited_urls
    /\ Fetched(P("/f")) = 0
    /\ Fetched(P("/g")) = 1

\* the LastScanned values the frame df holds for url
ScannedAt(df, url) ==
    {df[k].LastScanned : k \in {j \in 1..Len(df) : df[j].URL = url}}

\* the URLs the frame df holds a row of
UrlsOf(df) == {df[k].URL : k \in 1..Len(df)}

\* thread w takes the step of update_history that writes self.history_df
WritesHistory(w) ==
    /\ workers[w].pc \in {"uh_set", "uh_write"}
    /\ workers'[w].pc = "uh_save"

\* C15: a step in which the gate skips an entry leaves the history as it
\* is, and what the history holds as LastScanned of a URL changes only in a
\* step of a thread that fetched that URL, and then to the time of the
\* fetch.
LastScannedOnlyByFetch ==
    [][/\ skip_log' # skip_log => history_df' = history_df
       /\ \A u \in UrlsOf(history_df) \cup UrlsOf(history_df') :
             ScannedAt(history_df', u) # ScannedAt(history_df, u) =>
                /\ \E w \in Pool : WritesHistory(w) /\ workers[w].url = u
                /\ Count(fetches, u) > Count(fetch_errors, u)
                /\ ScannedAt(history_df', u) = {now}]_vars

\* C17: the history holds at most one row per URL, and when a batch is over
\* it holds a row, of the time of the fetch, for every URL that was fetched
\* with success: no upsert is lost and none is entered twice.
HistoryOneRowPerUrl ==
    /\ \A j, k \in 1..Len(history_df) :
          history_df[j].URL = history_df[k].URL => j = k
    /\ AllIdle =>
          \A u \in DOMAIN fetches :
              Fetched(u) >= 1 => ScannedAt(history_df, u) = {now}

\* the threads that have an entry of a batch in hand
InFlight == {w \in Pool : workers[w].pc # "idle"}

\* C16: batches are strictly serial and bounded: at most Width entries are
\* in flight, all of them from the batch taken last; the next batch is
\* taken only when every thread of the batch before has ended and its links
\* are merged into the queue, and it is the head of the queue.
BatchesSerial ==
    /\ [](/\ Cardinality(InFlight) <= Width
          /\ \A w \in InFlight : workers[w].batch = batch_no)
    /\ [][batch_no' # batch_no =>
            /\ InFlight = {}
            /\ \A w \in Pool : workers[w].internal_links = <<>>
            /\ batch_no' = batch_no + 1
            /\ Cardinality(InFlight') <= Width
            /\ Cardinality(InFlight') = Len(to_visit) - Len(to_visit')
            /\ \A w \in InFlight' :
                  <<workers'[w].url, workers'[w].depth>> = to_visit[w]]_vars

\* a second batch is running with every thread of the pool busy, and one
\* of them has collected links that are not in the queue yet
BatchesSerialWitness ==
    /\ batch_no >= 2
    /\ Cardinality(InFlight) = Width
    /\ \E w \in InFlight : workers[w].internal_links # <<>>

\* the records appended in this crawl, by their place in the list
NewRecords == {k \in 1..Len(deadlinks) : k > Len(loaded.results)}

\* the place of the first anchor of the page of url that resolves to full_url
AnchorIndex(url, full_url) ==
    CHOOSE j \in AnchorsTo(url, full_url) :
        \A i \in AnchorsTo(url, full_url) : j <= i

\* C18: the dead-link records of one source page are in the order of the
\* anchors of that page, under every interleaving of the threads.
RecordsInAnchorOrder ==
    \A j, k \in NewRecords :
        (j < k /\ deadlinks[j].source = deadlinks[k].source) =>
            AnchorIndex(deadlinks[j].source, deadlinks[j].deadlink)
              <= AnchorIndex(deadlinks[k].source, deadlinks[k].deadlink)

\* the greatest depth of an entry added to visited_urls, 0 when there is none
VisitedDepth ==
    IF visit_log = {} THEN 0
    ELSE CHOOSE d \in {e[2] : e \in visit_log} :
            \A e \in visit_log : e[2] <= d

\* C19: current_depth never decreases, and when a batch is over it is the
\* greatest depth of the entries added to visited_urls so far, which is at
\* most max_depth.
CurrentDepthIsMax ==
    /\ [][current_depth' >= current_depth]_vars
    /\ [](AllIdle => /\ current_depth = VisitedDepth
                     /\ current_depth <= max_depth)

\* C20: every record appended to the dead-link list in this crawl has a
\* source that is in visited_urls and was fetched with success in this
\* crawl, and a dead URL that is in scope of the base URL; a link out of
\* scope is neither checked nor reported.
DeadRecordsFromFetchedPages ==
    /\ \A k \in NewRecords :
          /\ deadlinks[k].source \in visited_urls
          /\ Fetched(deadlinks[k].source) >= 1
          /\ AnchorsTo(deadlinks[k].source, deadlinks[k].deadlink) # {}
          /\ HostInScope(deadlinks[k].deadlink)
          /\ deadlinks[k].deadlink.netloc \notin ExternalHosts
    /\ \A w \in Pool : \A j \in 1..Len(workers[w].checked) :
          HostInScope(urljoin(workers[w].url,
                              workers[w].anchors[workers[w].checked[j]]))

\* site B was crawled to the end: the dead link to xwww.a.b is recorded
\* with the seed page as its source, and the dead link to the other domain
\* www.c.d, which the seed page and a fetched subdomain page carry, is not
DeadRecordsWitness ==
    /\ Done
    /\ site = "B"
    /\ Fetched(base_url) = 1
    /\ Fetched(MkUrl("http", "s.www.a.b", "/")) = 1
    /\ \E k \in NewRecords :
          deadlinks[k] = Dead(base_url, MkUrl("http", "xwww.a.b", "/gone"))
    /\ HeadResponse(site, MkUrl("http", "www.c.d", "/")).status_code = 404
    /\ \A k \in 1..Len(deadlinks) : deadlinks[k].deadlink.netloc # "www.c.d"

====
